---- MODULE Spec2Model ----
(***************************************************************************)
(* A model of the takeover migrator's entry point (src/bin/takeover.rs),   *)
(* of the stage 2 pivot script and its rendering                           *)
(* (src/migrator/stage1/assets.rs) and of the config.json record           *)
(* (src/migrator/stage1/migrate_info/balena_cfg_json.rs).                  *)
(*                                                                         *)
(* Text is a sequence of symbols.  Every character that can take part in   *)
(* a slot marker or in JSON syntax is a symbol of its own; a run of other  *)
(* characters (a stretch of shell text free of underscores, a key name)    *)
(* is one opaque symbol.                                                   *)
(***************************************************************************)
EXTENDS Integers, Sequences, FiniteSets, TLC

VARIABLES
    s2,     \* Assets::write_stage2_script: its arguments, the file written, the result
    cfg,    \* a BalenaCfgJson record (config, file, modified), or NoCfg
    fs,     \* the files config.json is read from and written to: path -> content
    hist,   \* the operations applied to cfg since the module started, in order
    acc,    \* the last typed accessor call and what it returned
    chk,    \* BalenaCfgJson::check: its inputs, the connects it made, its log, its result
    proc    \* a process: the program it runs, its position in it, what it has done

vars == <<s2, cfg, fs, hist, acc, chk, proc>>

Idle == [at |-> "idle"]

----------------------------------------------------------------------------
(* Text helpers *)

RECURSIVE Concat(_)
Concat(ss) == IF ss = <<>> THEN <<>> ELSE Head(ss) \o Concat(Tail(ss))

\* F applied to the value of x, x evaluated once
With(x, F(_)) == CHOOSE r \in {F(y) : y \in {x}} : TRUE

Contains(s, pat) ==
    \E i \in 1..(Len(s) - Len(pat) + 1) : SubSeq(s, i, i + Len(pat) - 1) = pat

\* str::replace: every non-overlapping match of `from`, found left to right, becomes
\* `to`; the replacement text is not scanned again.
MatchAt(s, pat, i) == SubSeq(s, i, i + Len(pat) - 1) = pat

RECURSIVE Replace(_, _, _)
Replace(s, from, to) ==
    IF ~Contains(s, from) THEN s
    ELSE LET i == CHOOSE k \in 1..(Len(s) - Len(from) + 1) :
                      /\ MatchAt(s, from, k)
                      /\ \A j \in 1..(k - 1) : ~MatchAt(s, from, j)
         IN  SubSeq(s, 1, i - 1) \o to
                 \o Replace(SubSeq(s, i + Len(from), Len(s)), from, to)

----------------------------------------------------------------------------
(* src/migrator/stage1/assets.rs *)

SLOT_TO == <<"_", "_", "T", "O", "_", "_">>
SLOT_TTY == <<"_", "_", "T", "T", "Y", "_", "_">>
SLOT_LOG_LEVEL == <<"_", "_", "L", "O", "G", "_", "L", "E", "V", "E", "L", "_", "_">>

SlotMarkers == {SLOT_TO, SLOT_TTY, SLOT_LOG_LEVEL}

\* The lines of STAGE2_SCRIPT.  The first symbol of a line names its command.
ScriptLines == <<
    <<"#!">> \o SLOT_TO \o <<"/busybox sh">>,
    <<"echo", " \"takeover init started\"">>,
    <<"if [ -f", " \"">> \o SLOT_TO \o SLOT_TTY \o <<"\" ]; then ">>,
    <<"exec <", "\"">> \o SLOT_TO \o SLOT_TTY \o <<"\" >\"">> \o SLOT_TO \o SLOT_TTY
        \o <<"\" 2>\"">> \o SLOT_TO \o SLOT_TTY \o <<"\"">>,
    <<"fi">>,
    <<"cd", " \"">> \o SLOT_TO \o <<"\"">>,
    <<"echo", " \"Init takeover successful\"">>,
    <<"echo", " \"Pivoting root...\"">>,
    <<"mount", " --make-rprivate /">>,
    <<"pivot", "_", "root", " . mnt/old", "_", "root">>,
    <<"echo", " \"Chrooting and running init...\"">>,
    <<"exec", " ./busybox chroot . ", "/takeover", " ", "--init", " --s2-log-level ">>
        \o SLOT_LOG_LEVEL
>>

\* A faulty variant of the script: pivot_root is moved up, before the cd and the mount.
STAGE2_SCRIPT_PivotFirst ==
    LET order == <<1, 2, 3, 4, 5, 10, 6, 7, 8, 9, 11, 12>>
    IN  Concat([i \in 1..Len(ScriptLines) |-> ScriptLines[order[i]] \o <<"\n">>])

STAGE2_SCRIPT ==
    Concat([i \in 1..Len(ScriptLines) |-> ScriptLines[i] \o <<"\n">>])

\* log::Level and its Display form
Levels == {"ERROR", "WARN", "INFO", "DEBUG", "TRACE"}
LevelToString(level) == <<level>>

\* A faulty variant of the rendering: the log level slot is left as it is.
RenderNoLogLevel(to_dir, tty, log_level) ==
    Replace(Replace(STAGE2_SCRIPT, SLOT_TO, to_dir), SLOT_TTY, tty)

\* The three replace calls of write_stage2_script, in the order of the code.
Render(to_dir, tty, log_level) ==
    LET a == Replace(STAGE2_SCRIPT, SLOT_TO, to_dir)
        b == Replace(a, SLOT_TTY, tty)
    IN  Replace(b, SLOT_LOG_LEVEL, LevelToString(log_level))

\* The paths given to write_stage2_script are built from these pieces.
MaxFrags == 3
Frags == {<<"/d">>, <<"_">>, <<"_", "_">>, <<"T", "O">>, <<"T", "T", "Y">>}

RECURSIVE TextsOf(_)
TextsOf(n) ==
    IF n = 0 THEN {<<>>}
    ELSE LET shorter == TextsOf(n - 1)
         IN  shorter \cup {t \o f : t \in shorter, f \in Frags}

PathPairs == UNION {TextsOf(i) \X TextsOf(MaxFrags - i) : i \in 0..MaxFrags}

S2Init ==
    \E p \in PathPairs, l \in Levels :
        s2 = [at |-> "called", to_dir |-> p[1], tty |-> p[2], log_level |-> l,
              file |-> <<>>, exec |-> FALSE, result |-> "none"]

\* write_stage2_script: render, write the file, chmod +x it.
WriteStage2Script ==
    /\ s2.at = "called"
    /\ LET text == Render(s2.to_dir, s2.tty, s2.log_level)
           written == [s2 EXCEPT !.at = "returned", !.file = text]
       IN  \/ s2' = [s2 EXCEPT !.at = "returned", !.result = "Upstream"]
           \/ s2' = [written EXCEPT !.exec = TRUE, !.result = "Ok"]
           \/ s2' = [written EXCEPT !.result = "Displayed"]
           \/ s2' = [written EXCEPT !.result = "CallError"]
    /\ UNCHANGED <<cfg, fs, hist, acc, chk, proc>>

ScriptInit ==
    /\ S2Init
    /\ cfg = Idle /\ fs = Idle /\ hist = <<>> /\ acc = Idle /\ chk = Idle /\ proc = Idle

ScriptNext == WriteStage2Script

ScriptSpec == ScriptInit /\ [][ScriptNext]_vars

NoDoubleUnderscore(s) == ~Contains(s, <<"_", "_">>)
HasMarker(s) == \E m \in SlotMarkers : Contains(s, m)

\* C8 (as stated): for every staged-root path, TTY path and log level, the script
\* written by write_stage2_script contains no slot marker.
C8_NoMarkerForEveryInput ==
    (s2.at = "returned" /\ s2.result \in {"Ok", "Displayed", "CallError"})
        => ~HasMarker(s2.file)

\* C8 (amended): when neither the staged-root path nor the TTY path contains two
\* consecutive underscores, the script written contains no slot marker.
C8_NoMarkerWithoutDoubleUnderscore ==
    (/\ s2.at = "returned" /\ s2.result \in {"Ok", "Displayed", "CallError"}
     /\ NoDoubleUnderscore(s2.to_dir) /\ NoDoubleUnderscore(s2.tty))
        => ~HasMarker(s2.file)

\* A script was written from paths that hold single underscores, one ending the staged
\* root and one starting the TTY path.
C8_Witness ==
    /\ s2.at = "returned" /\ s2.result = "Ok"
    /\ NoDoubleUnderscore(s2.to_dir) /\ NoDoubleUnderscore(s2.tty)
    /\ s2.to_dir = <<"/d", "_">> /\ s2.tty = <<"_">>
    /\ Contains(s2.file, <<"cd", " \"", "/d", "_", "\"">>)

----------------------------------------------------------------------------
(* The shell running the rendered stage 2 script, and src/bin/takeover.rs *)

NoOpts == [stage2 |-> FALSE, init |-> FALSE, s2_log_level |-> "INFO", log_level |-> "INFO"]

RECURSIVE SplitLines(_)
SplitLines(t) ==
    IF t = <<>> THEN <<>>
    ELSE LET i == CHOOSE k \in 1..(Len(t) + 1) :
                      /\ (k = Len(t) + 1 \/ t[k] = "\n")
                      /\ \A j \in 1..(k - 1) : t[j] # "\n"
         IN  <<SubSeq(t, 1, i - 1)>> \o SplitLines(SubSeq(t, i + 1, Len(t)))

Range(f) == {f[i] : i \in DOMAIN f}

\* The command line options the binary is started with: the phase selectors are flags.
ParseArgs(argv) ==
    [stage2 |-> "--stage2" \in Range(argv),
     init |-> "--init" \in Range(argv),
     s2_log_level |-> IF argv # <<>> /\ argv[Len(argv)] \in Levels
                      THEN argv[Len(argv)] ELSE "INFO",
     log_level |-> "INFO"]

\* A faulty variant of main: the Init branch does not exit when init returns and goes on into
\* stage2.
MainBodyInitFallsIntoStage2(opts) ==
    IF opts.stage2
    THEN <<"set_default_level", "set_log_dest", "stage2", "exit1">>
    ELSE IF opts.init
         THEN <<"set_default_level", "set_log_dest", "init", "stage2", "exit1">>
         ELSE <<"set_default_level", "set_log_file", "stage1", "flush_return">>

\* A faulty variant of main: the exit(1) after stage2 is missing, so control reaches the
\* Logger::flush() at the end of main.
MainBodyStage2NoExit(opts) ==
    IF opts.stage2
    THEN <<"set_default_level", "set_log_dest", "stage2", "flush_return">>
    ELSE IF opts.init
         THEN <<"set_default_level", "set_log_dest", "init", "exit1">>
         ELSE <<"set_default_level", "set_log_file", "stage1", "flush_return">>

\* The statements main runs for the options it is given: the if / else if / else of main.
MainBody(opts) ==
    IF opts.stage2
    THEN <<"set_default_level", "set_log_dest", "stage2", "exit1">>
    ELSE IF opts.init
         THEN <<"set_default_level", "set_log_dest", "init", "exit1">>
         ELSE <<"set_default_level", "set_log_file", "stage1", "flush_return">>

Phases == {"stage1", "init", "stage2"}

\* What stage1 can return: Ok, or an error of some kind.
Stage1Results == {"Ok", "Displayed", "Other"}

ProcShape ==
    [prog |-> "none", pc |-> 1, lines |-> <<>>, steps |-> <<>>, ttyKind |-> "absent",
     origin |-> "none", opts |-> NoOpts, body |-> <<>>, phases |-> <<>>, inPhase |-> "none",
     outcomes |-> <<>>, log |-> <<>>, flushed |-> FALSE, exit |-> -1, shExit |-> -1]

\* A takeover process started with any combination of the phase selectors.
LaunchInit ==
    \E st \in BOOLEAN, ini \in BOOLEAN, l \in Levels :
        proc = [ProcShape EXCEPT
                   !.prog = "takeover", !.origin = "launch",
                   !.opts = [stage2 |-> st, init |-> ini, s2_log_level |-> l,
                             log_level |-> l],
                   !.body = MainBody([stage2 |-> st, init |-> ini])]

\* The staged root and TTY paths stage 1 renders the script with.
StagedRoots == {<<"/d">>, <<"/d", "/d">>}
TtyPaths == {<<"/d">>, <<"/d", "_", "/d">>}

\* A shell started on the rendered script; the entry at <staged root><tty> is absent, a
\* regular file or a character device.
ShellInit ==
    \E to \in StagedRoots, tty \in TtyPaths, l \in Levels,
       kind \in {"absent", "regular", "chardev"} :
        proc = [ProcShape EXCEPT
                   !.prog = "sh", !.origin = "stage1",
                   !.lines = SplitLines(Render(to, tty, l)), !.ttyKind = kind]

ShAt(cmd) ==
    /\ proc.prog = "sh"
    /\ proc.pc <= Len(proc.lines)
    /\ Head(proc.lines[proc.pc]) = cmd

Others == <<s2, cfg, fs, hist, acc, chk>>

\* The #! line is a comment to the shell; fi closes the if.
ShSkip ==
    /\ (ShAt("#!") \/ ShAt("fi"))
    /\ proc' = [proc EXCEPT !.pc = @ + 1]
    /\ UNCHANGED Others

ShEcho ==
    /\ ShAt("echo")
    /\ proc' = [proc EXCEPT !.pc = @ + 1]
    /\ UNCHANGED Others

\* if [ -f <path> ]: true when the path is a regular file; otherwise skip past fi.
ShIf ==
    /\ ShAt("if [ -f")
    /\ LET fi == CHOOSE k \in (proc.pc + 1)..Len(proc.lines) :
                     /\ Head(proc.lines[k]) = "fi"
                     /\ \A j \in (proc.pc + 1)..(k - 1) : Head(proc.lines[j]) # "fi"
       IN  proc' = [proc EXCEPT !.pc = IF proc.ttyKind = "regular" THEN @ + 1 ELSE fi + 1]
    /\ UNCHANGED Others

\* exec <tty >tty 2>tty: the redirection is made, or it fails and the shell exits.
ShRedirect ==
    /\ ShAt("exec <")
    /\ \/ proc' = [proc EXCEPT !.pc = @ + 1, !.steps = Append(@, "redirect")]
       \/ proc' = [proc EXCEPT !.prog = "none", !.steps = Append(@, "redirect"),
                               !.shExit = 2]
    /\ UNCHANGED Others

\* cd, mount and pivot_root: the shell goes on to the next line whether or not the
\* command succeeds (the script sets no -e).
ShCd ==
    /\ ShAt("cd")
    /\ proc' = [proc EXCEPT !.pc = @ + 1, !.steps = Append(@, "cd")]
    /\ UNCHANGED Others

ShMount ==
    /\ ShAt("mount")
    /\ proc' = [proc EXCEPT !.pc = @ + 1, !.steps = Append(@, "mount_rprivate")]
    /\ UNCHANGED Others

ShPivotRoot ==
    /\ ShAt("pivot")
    /\ proc' = [proc EXCEPT !.pc = @ + 1, !.steps = Append(@, "pivot_root")]
    /\ UNCHANGED Others

\* exec ./busybox chroot . /takeover ...: the shell is replaced by the takeover binary
\* started with the arguments of the line, or the exec fails and the shell exits.
ShExec ==
    /\ ShAt("exec")
    /\ LET line == proc.lines[proc.pc]
           opts == ParseArgs(line)
       IN  \/ proc' = [proc EXCEPT
                          !.prog = "takeover", !.origin = "script", !.pc = 1,
                          !.steps = Append(@, "exec_takeover"),
                          !.opts = opts, !.body = MainBody(opts)]
           \/ proc' = [proc EXCEPT !.prog = "none", !.steps = Append(@, "exec_takeover"),
                                   !.shExit = 127]
    /\ UNCHANGED Others

MainAt(stmt) ==
    /\ proc.prog = "takeover"
    /\ proc.inPhase = "none"
    /\ proc.pc <= Len(proc.body)
    /\ proc.body[proc.pc] = stmt

\* Logger::set_default_level
MainSetDefaultLevel ==
    /\ MainAt("set_default_level")
    /\ proc' = [proc EXCEPT !.pc = @ + 1]
    /\ UNCHANGED Others

\* Logger::set_log_dest / Logger::set_log_file: on an error, error! and exit(1).
MainSetLogging ==
    /\ (MainAt("set_log_dest") \/ MainAt("set_log_file"))
    /\ \/ proc' = [proc EXCEPT !.pc = @ + 1]
       \/ proc' = [proc EXCEPT !.prog = "none", !.exit = 1,
                               !.outcomes = Append(@, "logging_failed"),
                               !.log = Append(@, "Failed to initialize logging")]
    /\ UNCHANGED Others

\* main calls stage2(opts), init(&opts) or stage1(opts).
MainCallPhase ==
    /\ \E ph \in Phases :
        /\ MainAt(ph)
        /\ proc' = [proc EXCEPT !.inPhase = ph, !.phases = Append(@, ph)]
    /\ UNCHANGED Others

\* The phase does not come back: it reboots or replaces the process.
PhaseNeverReturns ==
    /\ proc.prog = "takeover" /\ proc.inPhase # "none"
    /\ proc' = [proc EXCEPT !.prog = "none", !.outcomes = Append(@, "no_return")]
    /\ UNCHANGED Others

\* stage2 or init returns to main.
PhaseReturns ==
    /\ proc.prog = "takeover" /\ proc.inPhase \in {"stage2", "init"}
    /\ proc' = [proc EXCEPT !.inPhase = "none", !.pc = @ + 1,
                            !.outcomes = Append(@, IF proc.inPhase = "stage2" THEN "stage2_returned"
                                                   ELSE "init_returned")]
    /\ UNCHANGED Others

\* stage1 returns: on Err the error is logged unless it is Displayed, the log is flushed
\* and the process exits with 1; on Ok main goes on.
Stage1Return ==
    /\ proc.prog = "takeover" /\ proc.inPhase = "stage1"
    /\ \E r \in Stage1Results :
        proc' = IF r = "Ok"
                THEN [proc EXCEPT !.inPhase = "none", !.pc = @ + 1,
                                  !.outcomes = Append(@, "stage1_ok")]
                ELSE [proc EXCEPT !.inPhase = "none", !.prog = "none", !.exit = 1,
                                  !.flushed = TRUE,
                                  !.outcomes = Append(@, "stage1_err"),
                                  !.log = IF r = "Displayed" THEN @
                                          ELSE Append(@, "Migrate stage 1 returned error")]
    /\ UNCHANGED Others

\* exit(1)
MainExit1 ==
    /\ MainAt("exit1")
    /\ proc' = [proc EXCEPT !.prog = "none", !.exit = 1]
    /\ UNCHANGED Others

\* Logger::flush() and the end of main: the process ends with exit code 0.
MainFlushReturn ==
    /\ MainAt("flush_return")
    /\ proc' = [proc EXCEPT !.prog = "none", !.flushed = TRUE, !.exit = 0]
    /\ UNCHANGED Others

MainInit ==
    /\ (LaunchInit \/ ShellInit)
    /\ s2 = Idle /\ cfg = Idle /\ fs = Idle /\ hist = <<>> /\ acc = Idle /\ chk = Idle

MainNext ==
    \/ ShSkip \/ ShEcho \/ ShIf \/ ShRedirect \/ ShCd \/ ShMount \/ ShPivotRoot \/ ShExec
    \/ MainSetDefaultLevel \/ MainSetLogging \/ MainCallPhase
    \/ PhaseNeverReturns \/ PhaseReturns \/ Stage1Return
    \/ MainExit1 \/ MainFlushReturn

MainSpec == MainInit /\ [][MainNext]_vars

SelectedPhase(opts) ==
    IF opts.stage2 THEN "stage2" ELSE IF opts.init THEN "init" ELSE "stage1"

\* C1: in one run of the binary main enters at most one of stage1, init and stage2, for
\* every combination of the selectors: stage2 when the Stage 2 selector is set,
\* otherwise init when the Init selector is set, otherwise stage1.
C1_AtMostOnePhase ==
    /\ Len(proc.phases) <= 1
    /\ Len(proc.phases) = 1 => proc.phases[1] = SelectedPhase(proc.opts)

\* Both selectors were given, stage2 ran, came back to main and the process exited.
C1_Witness ==
    /\ proc.opts.stage2 /\ proc.opts.init
    /\ proc.phases = <<"stage2">> /\ proc.outcomes = <<"stage2_returned">>
    /\ proc.exit = 1

\* C2: the exit code is 0 only in a process that ran the Stage 1 phase (and stage1
\* returned Ok); after init or stage2 returned to main, after stage1 returned an error
\* and after a failure to set up logging the exit code is 1.
C2_ExitCodes ==
    /\ proc.exit \in {-1, 0, 1}
    /\ proc.exit = 0 => (proc.phases = <<"stage1">> /\ proc.outcomes = <<"stage1_ok">>)
    /\ (/\ proc.prog = "none" /\ proc.outcomes # <<>>
        /\ proc.outcomes[Len(proc.outcomes)] \in
               {"init_returned", "stage2_returned", "stage1_err", "logging_failed"})
           => proc.exit = 1

\* A Stage 1 process ended with exit code 0.
C2_Witness ==
    /\ proc.exit = 0 /\ proc.phases = <<"stage1">> /\ proc.flushed

StepRank(step) ==
    CASE step = "redirect" -> 1
      [] step = "cd" -> 2
      [] step = "mount_rprivate" -> 3
      [] step = "pivot_root" -> 4
      [] step = "exec_takeover" -> 5

----------------------------------------------------------------------------
(* serde_json, as far as config.json needs it: a document is an object whose values
   are strings, numbers or empty arrays; its text is compact, as to_writer writes it. *)

DigitChars == <<"0", "1", "2", "3", "4", "5", "6", "7", "8", "9">>
IsDigit(c) == \E d \in 1..10 : DigitChars[d] = c
DigitVal(c) == (CHOOSE d \in 1..10 : DigitChars[d] = c) - 1

RECURSIVE ToDigits(_)
ToDigits(n) ==
    IF n < 10 THEN <<DigitChars[n + 1]>>
    ELSE ToDigits(n \div 10) \o <<DigitChars[(n % 10) + 1]>>

RECURSIVE FromDigits(_)
FromDigits(s) ==
    IF s = <<>> THEN 0
    ELSE 10 * FromDigits(SubSeq(s , 1, Len(s) - 1)) + DigitVal(s[Len(s)])

AllDigits(s) == s # <<>> /\ \A i \in DOMAIN s : IsDigit(s[i])

\* serde_json::Value
StringValue(s) == [t |-> "String", s |-> s]
PosInt(n) == [t |-> "PosInt", n |-> n]
NegInt(n) == [t |-> "NegInt", n |-> n]
\* a number with a fraction: its integer part and the digits of its fraction
Float(whole, frac) == [t |-> "Float", whole |-> whole, frac |-> frac]
EmptyArray == [t |-> "Array"]

\* Value::to_string / the serializer, for one value
ValueText(v) ==
    CASE v.t = "String" -> <<"\"">> \o v.s \o <<"\"">>
      [] v.t = "PosInt" -> ToDigits(v.n)
      [] v.t = "NegInt" -> <<"-">> \o ToDigits(-v.n)
      [] v.t = "Float" -> ToDigits(v.whole) \o <<".">> \o v.frac
      [] v.t = "Array" -> <<"[", "]">>

RECURSIVE Members(_, _)
Members(config, order) ==
    IF order = <<>> THEN <<>>
    ELSE LET k == Head(order)
         IN  <<"\"">> \o k \o <<"\"", ":">> \o ValueText(config[k])
                 \o (IF Len(order) > 1 THEN <<",">> ELSE <<>>)
                 \o Members(config, Tail(order))

\* serde_json::to_writer of the HashMap, its keys in the order the map iterates them
Serialize(config, order) == <<"{">> \o Members(config, order) \o <<"}">>

\* The orders a HashMap may iterate its keys in
Orders(config) ==
    LET n == Cardinality(DOMAIN config)
    IN  {o \in [1..n -> DOMAIN config] : \A i, j \in 1..n : i # j => o[i] # o[j]}

Fail == [ok |-> FALSE]
EmptyMap == [x \in {} |-> 0]

RECURSIVE SkipWs(_)
SkipWs(t) == IF t # <<>> /\ Head(t) = " " THEN SkipWs(Tail(t)) ELSE t

\* The length of the longest prefix of t made of digits
DigitRun(t) ==
    CHOOSE k \in 0..Len(t) :
        /\ \A i \in 1..k : IsDigit(t[i])
        /\ (k < Len(t) => ~IsDigit(t[k + 1]))

ParseString(t) ==
    IF t = <<>> \/ Head(t) # "\"" THEN Fail
    ELSE IF ~\E k \in 2..Len(t) : t[k] = "\"" THEN Fail
    ELSE LET k == CHOOSE i \in 2..Len(t) :
                      t[i] = "\"" /\ \A j \in 2..(i - 1) : t[j] # "\""
         IN  [ok |-> TRUE, v |-> SubSeq(t, 2, k - 1), rest |-> SubSeq(t, k + 1, Len(t))]

\* A JSON number: -? digits (. digits)?, the integer part without a leading zero
ParseNumberFrom(neg, u, n) ==
    LET whole == SubSeq(u, 1, n)
        after == SubSeq(u, n + 1, Len(u))
        fraction == after # <<>> /\ Head(after) = "."
    IN  IF n = 0 \/ (n > 1 /\ whole[1] = "0") THEN Fail
        ELSE IF fraction
             THEN With(DigitRun(Tail(after)), LAMBDA m :
                      IF m = 0 \/ neg THEN Fail
                      ELSE [ok |-> TRUE,
                            v |-> Float(FromDigits(whole), SubSeq(after, 2, m + 1)),
                            rest |-> SubSeq(after, m + 2, Len(after))])
             ELSE [ok |-> TRUE,
                   v |-> IF neg /\ FromDigits(whole) # 0
                         THEN NegInt(-FromDigits(whole)) ELSE PosInt(FromDigits(whole)),
                   rest |-> after]

ParseNumber(t) ==
    LET neg == t # <<>> /\ Head(t) = "-"
    IN  With(IF neg THEN Tail(t) ELSE t, LAMBDA u :
            With(DigitRun(u), LAMBDA n : ParseNumberFrom(neg, u, n)))

ParseValue(t) ==
    IF t = <<>> THEN Fail
    ELSE IF Head(t) = "\""
         THEN With(ParseString(t), LAMBDA r :
                  IF r.ok THEN [r EXCEPT !.v = StringValue(r.v)] ELSE Fail)
    ELSE IF Head(t) = "["
         THEN With(SkipWs(Tail(t)), LAMBDA u :
                  IF u # <<>> /\ Head(u) = "]"
                  THEN [ok |-> TRUE, v |-> EmptyArray, rest |-> Tail(u)]
                  ELSE Fail)
    ELSE IF Head(t) = "-" \/ IsDigit(Head(t)) THEN ParseNumber(t)
    ELSE Fail

\* The members of an object, from the first key on; a key met again replaces the
\* earlier value.
RECURSIVE ParseMembers(_, _)
ParseMembersAfterValue(key, v, m) ==
    IF ~v.ok THEN Fail
    ELSE With(SkipWs(v.rest), LAMBDA a :
             LET m2 == [x \in DOMAIN m \cup {key} |-> IF x = key THEN v.v ELSE m[x]]
             IN  IF a = <<>> THEN Fail
                 ELSE IF Head(a) = "}" THEN [ok |-> TRUE, v |-> m2, rest |-> Tail(a)]
                 ELSE IF Head(a) = "," THEN ParseMembers(SkipWs(Tail(a)), m2)
                 ELSE Fail)

ParseMembersAfterKey(k, m) ==
    IF ~k.ok THEN Fail
    ELSE With(SkipWs(k.rest), LAMBDA c :
             IF c = <<>> \/ Head(c) # ":" THEN Fail
             ELSE With(ParseValue(SkipWs(Tail(c))), LAMBDA v :
                      ParseMembersAfterValue(k.v, v, m)))

ParseMembers(t0, m0) ==
    With(t0, LAMBDA t : With(m0, LAMBDA m :
        With(ParseString(t), LAMBDA k : ParseMembersAfterKey(k, m))))

\* serde_json::from_reader into a HashMap<String, Value>: one object, then nothing but
\* white space up to the end of the file.
FromReaderObject(b) ==
    IF b = <<>> THEN Fail
    ELSE IF Head(b) = "}" THEN [ok |-> TRUE, v |-> EmptyMap, rest |-> Tail(b)]
    ELSE ParseMembers(b, EmptyMap)

FromReader(t) ==
    With(SkipWs(t), LAMBDA a :
        IF a = <<>> \/ Head(a) # "{" THEN Fail
        ELSE With(FromReaderObject(SkipWs(Tail(a))), LAMBDA r :
                 IF r.ok /\ SkipWs(r.rest) = <<>> THEN [ok |-> TRUE, v |-> r.v]
                 ELSE Fail))

----------------------------------------------------------------------------
(* src/migrator/stage1/migrate_info/balena_cfg_json.rs: the record and its accessors *)

Ok(v) == [ok |-> TRUE, v |-> v]
Err(kind) == [ok |-> FALSE, kind |-> kind]

\* str::parse::<u64>: an optional + and then decimal digits, nothing else.  (The texts of
\* this model have few digits, so the range of u64 is never left.)
ParseU64(s) ==
    LET d == IF s # <<>> /\ Head(s) = "+" THEN Tail(s) ELSE s
    IN  IF AllDigits(d) THEN Ok(FromDigits(d)) ELSE Err("ParseIntError")

get_str_val(config, name) ==
    IF name \in DOMAIN config
    THEN IF config[name].t = "String" THEN Ok(config[name].s) ELSE Err("InvParam")
    ELSE Err("NotFound")

\* A faulty variant of get_uint_val: a string that does not parse counts as 0.
get_uint_val_ZeroOnBadString(config, name) ==
    IF name \in DOMAIN config
    THEN IF config[name].t = "PosInt" THEN Ok(config[name].n)
         ELSE IF config[name].t = "String"
              THEN IF ParseU64(config[name].s).ok THEN ParseU64(config[name].s) ELSE Ok(0)
              ELSE Err("InvParam")
    ELSE Err("NotFound")

\* as_u64 is Some for a non-negative integer only; a string goes through parse::<u64>,
\* whose error is passed on by upstream_with_context.
get_uint_val(config, name) ==
    IF name \in DOMAIN config
    THEN IF config[name].t = "PosInt" THEN Ok(config[name].n)
         ELSE IF config[name].t = "String"
              THEN IF ParseU64(config[name].s).ok THEN ParseU64(config[name].s)
                   ELSE Err("Upstream")
              ELSE Err("InvParam")
    ELSE Err("NotFound")

K_hostname == <<"hostname">>
K_applicationId == <<"applicationId">>
K_apiKey == <<"apiKey">>
K_apiEndpoint == <<"apiEndpoint">>
K_vpnEndpoint == <<"vpnEndpoint">>
K_vpnPort == <<"vpnPort">>
K_deviceType == <<"deviceType">>

get_app_id(config) == get_uint_val(config, K_applicationId)
get_api_key(config) == get_str_val(config, K_apiKey)
get_api_endpoint(config) == get_str_val(config, K_apiEndpoint)
get_vpn_endpoint(config) == get_str_val(config, K_vpnEndpoint)
get_vpn_port(config) == get_uint_val(config, K_vpnPort)
get_device_type(config) == get_str_val(config, K_deviceType)

UIntKeys == {K_applicationId, K_vpnPort}
StrKeys == {K_apiKey, K_apiEndpoint, K_vpnEndpoint, K_deviceType}
AccessorKeys == UIntKeys \cup StrKeys

Accessor(config, key) ==
    CASE key = K_applicationId -> get_app_id(config)
      [] key = K_apiKey -> get_api_key(config)
      [] key = K_apiEndpoint -> get_api_endpoint(config)
      [] key = K_vpnEndpoint -> get_vpn_endpoint(config)
      [] key = K_vpnPort -> get_vpn_port(config)
      [] key = K_deviceType -> get_device_type(config)

\* The file system: two places a config.json can be, and a symbolic link to the second.
BOOT_CFG == "/mnt/boot/config.json"
WORK_CFG == "/tmp/work/config.json"
WORK_LINK == "/tmp/work/link.json"
RealPaths == {BOOT_CFG, WORK_CFG}
Paths == RealPaths \cup {WORK_LINK}

Resolve(p) == IF p = WORK_LINK THEN WORK_CFG ELSE p

NoFile == [exists |-> FALSE, data |-> <<>>]
File(data) == [exists |-> TRUE, data |-> data]

\* Path::canonicalize: the path with links resolved, when the file is there.
Canonicalize(files, p) ==
    IF files[Resolve(p)].exists THEN Ok(Resolve(p)) ELSE Err("Upstream")

\* BalenaCfgJson::new
New(files, p) ==
    IF ~Canonicalize(files, p).ok THEN Err("Upstream")
    ELSE With(FromReader(files[Resolve(p)].data), LAMBDA parsed :
             IF parsed.ok
             THEN Ok([config |-> parsed.v, file |-> Canonicalize(files, p).v,
                      modified |-> FALSE])
             ELSE Err("Upstream"))

\* What a file holds after `text` was written to it from its start, the file opened
\* with create(true).write(true): bytes of the old content beyond the text stay.
Overwrite(old, text) ==
    File(text \o SubSeq(old.data, Len(text) + 1, Len(old.data)))

set_host_name_Insert(config, hostname) ==
    [k \in DOMAIN config \cup {K_hostname} |->
        IF k = K_hostname THEN StringValue(hostname) ELSE config[k]]

NoCfg == [at |-> "none"]
HasCfg == cfg # NoCfg /\ cfg # Idle
None == <<"None">>
Some(v) == <<"Some", v>>
NoHist ==
    [at |-> "none", n |-> 0, last |-> "none", orig |-> EmptyMap, hn |-> None,
     target |-> "none", returned |-> None, rt |-> None]

\* What a reload of the file just written must give, by the round trip: the mapping
\* the record was built from, with the host name set since then.
Expected ==
    IF hist.hn = None THEN hist.orig
    ELSE set_host_name_Insert(hist.orig, hist.hn[2])

\* The number of operations applied to the record in one run of the model
MaxOps == 4
OpsLeft == hist.n < MaxOps

\* BalenaCfgJson::new(p), for the first time or again.
CfgNew ==
    /\ cfg # Idle /\ OpsLeft
    /\ \E p \in Paths : \E r \in {New(fs, p)} :
        LET reload == HasCfg /\ hist.last = "write" /\ Resolve(p) = cfg.file
            rt == IF reload
                  THEN Some([expected |-> Expected, hn |-> hist.hn,
                             got |-> IF r.ok THEN Some(r.v.config) ELSE None])
                  ELSE None
        IN  /\ cfg' = IF r.ok THEN r.v ELSE NoCfg
            /\ hist' = [at |-> "some", n |-> hist.n + 1,
                        last |-> IF r.ok THEN "new" ELSE "new_failed",
                        orig |-> IF r.ok THEN r.v.config ELSE EmptyMap,
                        hn |-> None, target |-> p, returned |-> None, rt |-> rt]
    /\ UNCHANGED <<fs, s2, acc, chk, proc>>

\* The host names set_host_name is called with, and those config.json comes with
MaxHostLen == 2
Hostnames == {[i \in 1..n |-> "b"] : n \in 1..MaxHostLen}
OldHostnames == {[i \in 1..n |-> "a"] : n \in 1..MaxHostLen}

\* BalenaCfgJson::set_host_name
CfgSetHostName ==
    /\ HasCfg /\ OpsLeft
    /\ \E h \in Hostnames :
        /\ cfg' = [cfg EXCEPT !.modified = TRUE,
                              !.config = set_host_name_Insert(cfg.config, h)]
        /\ hist' = [hist EXCEPT
                       !.n = @ + 1, !.last = "set_host_name", !.hn = Some(h),
                       !.rt = None,
                       !.returned = IF K_hostname \in DOMAIN cfg.config
                                    THEN Some(ValueText(cfg.config[K_hostname]))
                                    ELSE None]
    /\ UNCHANGED <<fs, s2, acc, chk, proc>>

\* BalenaCfgJson::write: open (create, write), to_writer, clear modified, canonicalize;
\* or the open fails and nothing changes.
CfgWrite ==
    /\ HasCfg /\ OpsLeft
    /\ \E t \in Paths :
        \/ \E order \in Orders(cfg.config) :
            LET text == Serialize(cfg.config, order)
                files == [fs EXCEPT ![Resolve(t)] = Overwrite(@, text)]
            IN  /\ fs' = files
                /\ cfg' = [cfg EXCEPT !.modified = FALSE,
                                      !.file = Canonicalize(files, t).v]
                /\ hist' = [hist EXCEPT !.n = @ + 1, !.last = "write", !.target = t,
                                        !.rt = None, !.returned = None]
        \/ /\ hist' = [hist EXCEPT !.n = @ + 1, !.last = "write_failed", !.target = t,
                                   !.rt = None, !.returned = None]
           /\ UNCHANGED <<cfg, fs>>
    /\ UNCHANGED <<s2, acc, chk, proc>>

\* One of the typed accessors
CfgGet ==
    /\ HasCfg
    /\ \E key \in AccessorKeys :
        acc' = [at |-> "returned", key |-> key, config |-> cfg.config,
                result |-> Accessor(cfg.config, key)]
    /\ UNCHANGED <<cfg, fs, hist, s2, chk, proc>>

\* The values a key of config.json may hold when the migration starts.
AllowedFor(k) ==
    CASE k = K_applicationId -> {PosInt(7)}
      [] k = K_hostname -> {StringValue(h) : h \in OldHostnames}

ConfigsOver(keys, allowed(_)) ==
    UNION {{c \in [d -> UNION {allowed(k) : k \in d}] : \A k \in d : c[k] \in allowed(k)} :
           d \in SUBSET keys}

RoundTripConfigs == ConfigsOver({K_applicationId, K_hostname}, AllowedFor)

\* What may be at the write target before the write: nothing, an empty document, or
\* an earlier config.json with a long host name.
OldFiles ==
    {NoFile, File(<<"{", "}">>),
     File(Serialize(set_host_name_Insert(EmptyMap, [i \in 1..(MaxHostLen + 1) |-> "a"]),
                    <<K_hostname>>))}

CfgInit ==
    /\ cfg = NoCfg /\ hist = NoHist /\ acc = Idle
    /\ \E c \in RoundTripConfigs, old \in OldFiles :
        \E order \in Orders(c) :
            fs = [p \in RealPaths |->
                     IF p = BOOT_CFG THEN File(Serialize(c, order)) ELSE old]
    /\ s2 = Idle /\ chk = Idle /\ proc = Idle

CfgNext == CfgNew \/ CfgSetHostName \/ CfgWrite

CfgSpec == CfgInit /\ [][CfgNext]_vars

\* C4: load, set_host_name, write to any target (with or without a file there, of any
\* length) and load again gives the original mapping plus the new host name;
\* is_modified is true after set_host_name and false after the write, and get_path is
\* then the canonicalized target.
C4_RoundTrip ==
    hist.at = "some" =>
        /\ hist.last = "set_host_name" => cfg.modified
        /\ hist.last = "write" => (~cfg.modified /\ cfg.file = Resolve(hist.target))
        /\ (hist.rt # None /\ hist.rt[2].hn # None)
               => hist.rt[2].got = Some(hist.rt[2].expected)

----------------------------------------------------------------------------
(* The typed accessors, on documents of every shape *)

\* The values a key may hold: an unsigned integer, strings that do and do not encode
\* one, a negative integer, a number with a fraction, an array.
TypedValues ==
    {PosInt(7), StringValue(<<"7">>), StringValue(<<"+", "7">>), StringValue(<<"x">>),
     StringValue(<<>>), NegInt(-7), Float(1, <<"5">>), EmptyArray}

AnyValue(k) == TypedValues

\* The number of keys of a document
MaxKeys == 1
TypedConfigs ==
    {c \in ConfigsOver(AccessorKeys, AnyValue) : Cardinality(DOMAIN c) <= MaxKeys}

AccInit ==
    /\ cfg = NoCfg /\ hist = NoHist /\ acc = Idle
    /\ \E c \in TypedConfigs :
        \E order \in Orders(c) :
            fs = [p \in RealPaths |->
                     IF p = BOOT_CFG THEN File(Serialize(c, order)) ELSE NoFile]
    /\ s2 = Idle /\ chk = Idle /\ proc = Idle

AccNext == CfgNew \/ CfgGet

AccSpec == AccInit /\ [][AccNext]_vars

EncodesUInt(s) == AllDigits(IF s # <<>> /\ Head(s) = "+" THEN Tail(s) ELSE s)
UIntOf(s) == FromDigits(IF s # <<>> /\ Head(s) = "+" THEN Tail(s) ELSE s)

\* C5 (as stated): an accessor returns the stored value when the key holds a value of
\* the declared type (unsigned: an unsigned integer, or a string encoding one), fails
\* with NotFound when the key is missing and with InvalidParameter for every other
\* value, a string that encodes no unsigned integer included.
C5_AccessorsAsStated ==
    acc.at = "returned" =>
        LET c == acc.config
            k == acc.key
        IN  acc.result =
                IF k \notin DOMAIN c THEN Err("NotFound")
                ELSE IF k \in StrKeys
                     THEN IF c[k].t = "String" THEN Ok(c[k].s) ELSE Err("InvParam")
                ELSE IF c[k].t = "PosInt" THEN Ok(c[k].n)
                ELSE IF c[k].t = "String" /\ EncodesUInt(c[k].s) THEN Ok(UIntOf(c[k].s))
                ELSE Err("InvParam")

\* C5 (amended): as stated, except that for an unsigned field a string that encodes no
\* unsigned integer fails with the error upstream_with_context makes of the parse
\* error, not with InvalidParameter.
C5_Accessors ==
    acc.at = "returned" =>
        LET c == acc.config
            k == acc.key
        IN  acc.result =
                IF k \notin DOMAIN c THEN Err("NotFound")
                ELSE IF k \in StrKeys
                     THEN IF c[k].t = "String" THEN Ok(c[k].s) ELSE Err("InvParam")
                ELSE IF c[k].t = "PosInt" THEN Ok(c[k].n)
                ELSE IF c[k].t = "String"
                     THEN IF EncodesUInt(c[k].s) THEN Ok(UIntOf(c[k].s))
                          ELSE Err("Upstream")
                ELSE Err("InvParam")

\* get_vpn_port was called on a document whose vpnPort is the string "x".
C5_Witness ==
    /\ acc.at = "returned" /\ acc.key = K_vpnPort
    /\ K_vpnPort \in DOMAIN acc.config
    /\ acc.config[K_vpnPort] = StringValue(<<"x">>)
    /\ acc.result = Err("Upstream")

----------------------------------------------------------------------------
(* BalenaCfgJson::check *)

BALENA_API_PORT == 80

\* The default port the url crate knows for a scheme, as Some(port), or None.
DefaultPort(scheme) ==
    CASE scheme \in {"http", "ws"} -> Some(80)
      [] scheme \in {"https", "wss"} -> Some(443)
      [] scheme = "ftp" -> Some(21)
      [] OTHER -> None

\* The port written in the text of a URL, as Some(digits), or None.
WrittenPort(text) ==
    IF Len(text) > 4 /\ text[2] = "://" /\ text[4] = ":" /\ AllDigits(SubSeq(text, 5, Len(text)))
    THEN Some(FromDigits(SubSeq(text, 5, Len(text))))
    ELSE None

\* Url::parse, then Url::host and Url::port.  A text is <scheme> :// <host> with an
\* optional : <port>, or <scheme> : <rest> (a URL without a host), or no URL at all.
\* Url::port is None when no port is written and also when the port written is the
\* default port of the scheme.
UrlParse(text) ==
    IF Len(text) >= 3 /\ text[2] = "://"
    THEN IF Len(text) = 3
         THEN Ok([scheme |-> text[1], host |-> Some(text[3]), port |-> None])
         ELSE LET w == WrittenPort(text)
              IN  IF w = None \/ w[2] > 65535 THEN Err("Upstream")
                  ELSE Ok([scheme |-> text[1], host |-> Some(text[3]),
                           port |-> IF w = DefaultPort(text[1]) THEN None ELSE w])
    ELSE IF Len(text) >= 2 /\ text[2] = ":"
         THEN Ok([scheme |-> text[1], host |-> None, port |-> None])
         ELSE Err("Upstream")

\* `as u16`
AsU16(n) == n % 65536

L(level, msg) == [level |-> level, msg |-> msg]

Continue(connects, log) == [result |-> "Continue", connects |-> connects, log |-> log]
Return(kind, connects, log) == [result |-> kind, connects |-> connects, log |-> log]

Then(a, b) ==
    IF a.result # "Continue" THEN a
    ELSE [result |-> b.result, connects |-> a.connects \o b.connects,
          log |-> a.log \o b.log]

\* info!("Configured for application id: {}", self.get_app_id()?)
AppIdStep(config) ==
    IF get_app_id(config).ok THEN Continue(<<>>, <<L("info", "Configured for application id")>>)
    ELSE Return(get_app_id(config).kind, <<>>, <<>>)

\* A faulty variant of the device type gate: the check of supports_device_type is missing.
DeviceTypeGateMissing(config, supported) ==
    IF ~get_device_type(config).ok THEN Return(get_device_type(config).kind, <<>>, <<>>)
    ELSE Continue(<<>>, <<>>)

DeviceTypeGate(config, supported) ==
    IF ~get_device_type(config).ok THEN Return(get_device_type(config).kind, <<>>, <<>>)
    ELSE IF get_device_type(config).v \notin supported
         THEN Return("Displayed", <<>>, <<L("error", "The devicetype configured in config.json is not supported")>>)
         ELSE Continue(<<>>, <<>>)

Connect(what, host, port, ok) == [what |-> what, host |-> host, port |-> port, ok |-> ok]

ApiProbe(config, opts, api_ok) ==
    IF ~opts.api_check THEN Continue(<<>>, <<>>)
    ELSE IF ~get_api_endpoint(config).ok
         THEN Return(get_api_endpoint(config).kind, <<>>, <<>>)
    ELSE LET url == UrlParse(get_api_endpoint(config).v)
         IN  IF ~url.ok THEN Return("Upstream", <<>>, <<>>)
             ELSE IF url.v.host = None
                  THEN Return("Displayed", <<>>, <<L("error", "failed to parse api server url")>>)
             ELSE LET port == IF url.v.port # None THEN url.v.port[2] ELSE BALENA_API_PORT
                      c == Connect("api", url.v.host[2], port, api_ok)
                  IN  IF api_ok THEN Continue(<<c>>, <<L("info", "connection to api is ok")>>)
                      ELSE Return("Displayed", <<c>>,
                                  <<L("error", "failed to connect to api server")>>)

VpnProbe(config, opts, vpn_ok) ==
    IF ~opts.vpn_check THEN Continue(<<>>, <<>>)
    ELSE IF ~get_vpn_endpoint(config).ok
         THEN Return(get_vpn_endpoint(config).kind, <<>>, <<>>)
    ELSE IF ~get_vpn_port(config).ok THEN Return(get_vpn_port(config).kind, <<>>, <<>>)
    ELSE LET c == Connect("vpn", get_vpn_endpoint(config).v,
                          AsU16(get_vpn_port(config).v), vpn_ok)
         IN  IF vpn_ok THEN Continue(<<c>>, <<L("info", "connection to vpn is ok")>>)
             ELSE Return("Displayed", <<c>>, <<L("error", "failed to connect to vpn server")>>)

\* check(&self, opts, device): the application id, the device type gate, the API
\* probe, the VPN probe, then Ok(()).
Check(config, opts, supported, api_ok, vpn_ok) ==
    LET r == Then(AppIdStep(config),
             Then(DeviceTypeGate(config, supported),
             Then(ApiProbe(config, opts, api_ok), VpnProbe(config, opts, vpn_ok))))
    IN  [r EXCEPT !.result = IF @ = "Continue" THEN "Ok" ELSE @]

\* What check is called on: a document, the options, the detected device.
Absent == [t |-> "Absent"]

MapFrom(pairs) ==
    [k \in {p[1] : p \in {q \in pairs : q[2] # Absent}} |->
        (CHOOSE p \in pairs : p[1] = k)[2]]

API_HOST == "api.balena-cloud.com"
VPN_HOST == "vpn.balena-cloud.com"

ApiEndpointTexts ==
    {<<sch, "://", API_HOST>> \o port :
        sch \in {"http", "https"},
        port \in {<<>>, <<":", "8", "0">>, <<":", "4", "4", "3">>, <<":", "8", "0", "8", "0">>}}
    \cup {<<"not a url">>, <<"mailto", ":", "support">>}

AppIdValues == {Absent, PosInt(7), StringValue(<<"x">>)}
DeviceTypeValues ==
    {Absent, StringValue(<<"intel-nuc">>), StringValue(<<"raspberrypi5">>), PosInt(7)}
ApiEndpointValues == {Absent, PosInt(7)} \cup {StringValue(t) : t \in ApiEndpointTexts}
VpnEndpointValues == {Absent, StringValue(<<VPN_HOST>>)}
VpnPortValues ==
    {Absent, PosInt(443), StringValue(<<"4", "4", "3">>), PosInt(65616), PosInt(65536),
     StringValue(<<"x">>)}

\* The device types the detected device supports (Device::supports_device_type)
Devices == {{<<"intel-nuc">>, <<"genericx86-64-ext">>}}

CheckInit ==
    /\ \E a \in AppIdValues, d \in DeviceTypeValues, e \in ApiEndpointValues,
          v \in VpnEndpointValues, p \in VpnPortValues, dev \in Devices,
          api \in BOOLEAN, vpn \in BOOLEAN, force \in BOOLEAN :
        chk = [at |-> "called",
               config |-> MapFrom({<<K_applicationId, a>>, <<K_deviceType, d>>,
                                   <<K_apiEndpoint, e>>, <<K_vpnEndpoint, v>>,
                                   <<K_vpnPort, p>>}),
               opts |-> [api_check |-> api, vpn_check |-> vpn, force |-> force],
               supported |-> dev,
               result |-> "none", connects |-> <<>>, log |-> <<>>]
    /\ s2 = Idle /\ cfg = Idle /\ fs = Idle /\ hist = <<>> /\ acc = Idle /\ proc = Idle

\* One call of check; each TCP connect it makes succeeds or fails.
BalenaCheck ==
    /\ chk.at = "called"
    /\ \E api_ok \in BOOLEAN, vpn_ok \in BOOLEAN :
        \E r \in {Check(chk.config, chk.opts, chk.supported, api_ok, vpn_ok)} :
            chk' = [chk EXCEPT !.at = "returned", !.result = r.result,
                               !.connects = r.connects, !.log = r.log]
    /\ UNCHANGED <<s2, cfg, fs, hist, acc, proc>>

CheckNext == BalenaCheck

CheckSpec == CheckInit /\ [][CheckNext]_vars

Returned == chk.at = "returned"
FailedConnect == \E i \in DOMAIN chk.connects : ~chk.connects[i].ok
ConnectsTo(what) == {i \in DOMAIN chk.connects : chk.connects[i].what = what}
HoldsString(key) == key \in DOMAIN chk.config /\ chk.config[key].t = "String"

\* C3: when an enabled reachability check cannot connect, check fails with
\* a Network error unless force is set; with force set the failure is only logged as
\* a warning and check succeeds.
C3_FatalUnlessForce ==
    (Returned /\ FailedConnect) =>
        IF chk.opts.force
        THEN chk.result = "Ok" /\ chk.log[Len(chk.log)].level = "warn"
        ELSE chk.result = "Network"

StoredUInt(v) == IF v.t = "PosInt" THEN v.n ELSE UIntOf(v.s)

\* C6: when the VPN check is enabled, the connect goes to vpnEndpoint on the port equal
\* to the value stored under vpnPort, an unsigned 16-bit value; a stored value outside
\* 0..65535 is never turned into a connect to another port.
C6_VpnPortAsStored ==
    Returned =>
        \A i \in ConnectsTo("vpn") :
            /\ chk.opts.vpn_check
            /\ chk.connects[i].host = chk.config[K_vpnEndpoint].s
            /\ StoredUInt(chk.config[K_vpnPort]) \in 0..65535
            /\ chk.connects[i].port = StoredUInt(chk.config[K_vpnPort])

\* C7: when the API check is enabled, the connect goes to the host of the apiEndpoint
\* URL on the port written in the URL, and on port 80 exactly when the URL carries no
\* port; when the API check is disabled no connect to the API endpoint is made.
C7_ApiPortAsWritten ==
    Returned =>
        /\ ~chk.opts.api_check => ConnectsTo("api") = {}
        /\ \A i \in ConnectsTo("api") :
            LET text == chk.config[K_apiEndpoint].s
            IN  /\ chk.connects[i].host = text[3]
                /\ chk.connects[i].port =
                       IF WrittenPort(text) # None THEN WrittenPort(text)[2] ELSE 80

UnsupportedDeviceType ==
    HoldsString(K_deviceType) /\ chk.config[K_deviceType].s \notin chk.supported

AppIdReadable ==
    /\ K_applicationId \in DOMAIN chk.config
    /\ \/ chk.config[K_applicationId].t = "PosInt"
       \/ /\ chk.config[K_applicationId].t = "String"
          /\ EncodesUInt(chk.config[K_applicationId].s)

====
